---------------------------- MODULE Spec2Model ----------------------------
(***************************************************************************)
(* A model of the ANS ingestion pipeline: the CNPJ validator               *)
(* (src/src/utils/validators.py), the ZIP processor as its tests and the   *)
(* specification describe it, and the orchestrator loop (src/src/main.py). *)
(*                                                                         *)
(* Strings are sequences of one-character strings, so stripping,           *)
(* formatting, joining and parsing are computed, not assumed.              *)
(***************************************************************************)
EXTENDS Integers, Sequences, FiniteSets

VARIABLES
    \* validate_cnpj (validators.py)
    cnpj_arg,      \* the argument: [isNone, chars]
    cnpj,          \* the local `cnpj` after re.sub: digit characters only
    digit_1,       \* local digit_1 (Unset until computed)
    digit_2,       \* local digit_2 (Unset until computed)
    result,        \* the returned bool
    v_pc,          \* "entry" | "digits" | "returned"
    \* ZipProcessor.process_zip (called by main.py and the tests)
    zp_archive,    \* the file the path names: [isZip, entries]
    zp_result,     \* the returned frame: [isNone, rows]
    zp_pc,         \* "call" | "returned"
    \* main (main.py)
    download_dir,      \* client.download_dir
    listing,           \* os.listdir(client.download_dir)
    fs,                \* the files on disk: path -> content
    downloaded_files,  \* the .zip paths, in listing order
    idx,               \* position of the for loop in downloaded_files
    all_data,          \* the list of tagged frames
    origin,            \* history: per accumulated record, its archive's index
    final_df,          \* the merged frame, None until merged
    printed,           \* what the run printed, in order
    pc                 \* "start" | "loop" | "done" | "crashed"

vvars == <<cnpj_arg, cnpj, digit_1, digit_2, result, v_pc>>

zvars == <<zp_archive, zp_result, zp_pc>>

mvars == <<download_dir, listing, fs, downloaded_files, idx, all_data, origin,
           final_df, printed, pc>>

vars == <<vvars, zvars, mvars>>

-----------------------------------------------------------------------------
(* Python values *)

None == [isNone |-> TRUE, chars |-> <<>>]

Str(s) == [isNone |-> FALSE, chars |-> s]

Unset == -1

Min(a, b) == IF a <= b THEN a ELSE b

-----------------------------------------------------------------------------
(* validate_cnpj *)

DigitChars == <<"0", "1", "2", "3", "4", "5", "6", "7", "8", "9">>

IsDigitChar(c) == \E i \in DOMAIN DigitChars : DigitChars[i] = c

\* int(digit) for a one-character digit string
int(c) == (CHOOSE i \in DOMAIN DigitChars : DigitChars[i] = c) - 1

\* f"{d}" for d in 0..9
fmt(d) == DigitChars[d + 1]

\* re.sub(r'[^0-9]', '', s)
re_sub_non_digits(s) == SelectSeq(s, IsDigitChar)

\* `if not cnpj`: None and the empty string are falsy
IsFalsy(v) == v.isNone \/ v.chars = <<>>

weights_1 == <<5, 4, 3, 2, 9, 8, 7, 6, 5, 4, 3, 2>>

weights_2 == <<6, 5, 4, 3, 2, 9, 8, 7, 6, 5, 4, 3, 2>>

\* sum(int(digit) * weight for digit, weight in zip(cnpj_body, weights)),
\* over the first n pairs
RECURSIVE ZipSum(_, _, _)
ZipSum(cnpj_body, weights, n) ==
    IF n = 0 THEN 0
    ELSE ZipSum(cnpj_body, weights, n - 1) + int(cnpj_body[n]) * weights[n]

calculate_digit_sub(cnpj_body, weights) ==
    LET soma == ZipSum(cnpj_body, weights, Min(Len(cnpj_body), Len(weights)))
        remainder == soma % 11
    IN  IF remainder < 2 THEN 0 ELSE 10 - remainder

calculate_digit(cnpj_body, weights) ==
    LET soma == ZipSum(cnpj_body, weights, Min(Len(cnpj_body), Len(weights)))
        remainder == soma % 11
    IN  IF remainder < 2 THEN 0 ELSE 11 - remainder

\* len(cnpj) != 14 or len(set(cnpj)) == 1
RejectedShape_any(c) == Len(c) /= 14

RejectedShape(c) ==
    Len(c) /= 14 \/ Cardinality({c[i] : i \in DOMAIN c}) = 1

\* cnpj[:12]
Body12(c) == SubSeq(c, 1, Min(12, Len(c)))

\* cnpj[:13]
Body13_short(c) == SubSeq(c, 1, Min(12, Len(c)))

Body13(c) == SubSeq(c, 1, Min(13, Len(c)))

\* cnpj[-2:] == f"{digit_1}{digit_2}"
LastTwoMatch_last(c, d1, d2) ==
    SubSeq(c, Len(c), Len(c)) = <<fmt(d2)>>

LastTwoMatch(c, d1, d2) ==
    SubSeq(c, Len(c) - 1, Len(c)) = <<fmt(d1), fmt(d2)>>

\* The whole function, as one value
validate_cnpj(v) ==
    IF IsFalsy(v) THEN FALSE
    ELSE LET c == re_sub_non_digits(v.chars)
         IN  IF RejectedShape(c) THEN FALSE
             ELSE LastTwoMatch(c, calculate_digit(Body12(c), weights_1),
                                  calculate_digit(Body13(c), weights_2))

-----------------------------------------------------------------------------
(* Frames and files *)

NoneFrame == [isNone |-> TRUE, rows |-> <<>>]

Frame(rows) == [isNone |-> FALSE, rows |-> rows]

NotZip == [isZip |-> FALSE, entries |-> <<>>]

Zip(entries) == [isZip |-> TRUE, entries |-> entries]

\* s.endswith(suffix)
EndsWith(s, suffix) ==
    /\ Len(s) >= Len(suffix)
    /\ SubSeq(s, Len(s) - Len(suffix) + 1, Len(s)) = suffix

DotZip == <<".", "z", "i", "p">>

DotCsv == <<".", "c", "s", "v">>

\* The parts of the model that are not the component being run stay idle
IdleValidator ==
    /\ cnpj_arg = None
    /\ cnpj = <<>>
    /\ digit_1 = Unset
    /\ digit_2 = Unset
    /\ result = FALSE
    /\ v_pc = "idle"

IdleZip ==
    /\ zp_archive = NotZip
    /\ zp_result = NoneFrame
    /\ zp_pc = "idle"

IdleMain ==
    /\ download_dir = <<>>
    /\ listing = <<>>
    /\ fs = <<>>
    /\ downloaded_files = <<>>
    /\ idx = 0
    /\ all_data = <<>>
    /\ origin = <<>>
    /\ final_df = NoneFrame
    /\ printed = <<>>
    /\ pc = "idle"

-----------------------------------------------------------------------------
(* Inputs of the validator *)

MaxDrop == 1

DigitSet == {DigitChars[i] : i \in DOMAIN DigitChars}

Repeat(c, n) == [i \in 1..n |-> c]

\* The body of 06.990.590/0001-23 (test_validators.py)
GoogleBody == <<"0", "6", "9", "9", "0", "5", "9", "0", "0", "0", "0", "1">>

\* body b with position p set to digit d
SetDigit(b, p, d) == [i \in 1..Len(b) |-> IF i = p THEN d ELSE b[i]]

\* xx.xxx.xxx/xxxx-xx
Punctuate(s) ==
    SubSeq(s, 1, 2) \o <<".">> \o SubSeq(s, 3, 5) \o <<".">> \o SubSeq(s, 6, 8)
        \o <<"/">> \o SubSeq(s, 9, 12) \o <<"-">> \o SubSeq(s, 13, 14)

\* s without its first k characters (leading digits lost upstream)
DropLeading(s, k) == SubSeq(s, k + 1, Len(s))

\* The ways a 14-digit identifier reaches the validator
Forms ==
    {[kind |-> "plain", drop |-> k] : k \in 0..MaxDrop}
    \cup {[kind |-> "punctuated", drop |-> 0], [kind |-> "extended", drop |-> 0]}

Render(s, form) ==
    CASE form.kind = "punctuated" -> Str(Punctuate(s))
      [] form.kind = "extended"   -> Str(s \o <<"0">>)
      [] OTHER                    -> Str(DropLeading(s, form.drop))

OddInputs ==
    {None, Str(<<>>), Str(<<"1", "2", "3">>), Str(<<".", "/", "-">>)}

InitValidator ==
    /\ \/ cnpj_arg \in OddInputs
       \/ \E p \in 1..12, d \in DigitSet, x \in DigitSet, y \in DigitSet,
             form \in Forms :
             cnpj_arg = Render(SetDigit(GoogleBody, p, d) \o <<x, y>>, form)
       \/ \E d \in DigitSet, x \in DigitSet, y \in DigitSet, form \in Forms :
             cnpj_arg = Render(Repeat(d, 12) \o <<x, y>>, form)
    /\ cnpj = <<>>
    /\ digit_1 = Unset
    /\ digit_2 = Unset
    /\ result = FALSE
    /\ v_pc = "entry"
    /\ IdleZip
    /\ IdleMain

\* validators.py lines 8-16: the guards before the checksum
Entry ==
    /\ v_pc = "entry"
    /\ IF IsFalsy(cnpj_arg)
       THEN /\ v_pc' = "returned"
            /\ result' = FALSE
            /\ UNCHANGED cnpj
       ELSE LET c == re_sub_non_digits(cnpj_arg.chars)
            IN  /\ cnpj' = c
                /\ IF RejectedShape(c)
                   THEN v_pc' = "returned" /\ result' = FALSE
                   ELSE v_pc' = "digits" /\ UNCHANGED result
    /\ UNCHANGED <<cnpj_arg, digit_1, digit_2, zvars, mvars>>

\* validators.py lines 19-32: the two check digits and the comparison
Checksum ==
    /\ v_pc = "digits"
    /\ LET d1 == calculate_digit(Body12(cnpj), weights_1)
           d2 == calculate_digit(Body13(cnpj), weights_2)
       IN  /\ digit_1' = d1
           /\ digit_2' = d2
           /\ result' = LastTwoMatch(cnpj, d1, d2)
    /\ v_pc' = "returned"
    /\ UNCHANGED <<cnpj_arg, cnpj, zvars, mvars>>

NextValidator == Entry \/ Checksum

SpecValidator == InitValidator /\ [][NextValidator]_vars

-----------------------------------------------------------------------------
(* ZipProcessor.process_zip: the archive extractor and tabular normalizer *)

\* A number with `scale` fractional digits: num / 10^scale, no trailing zero
Decimal(num, scale) == [num |-> num, scale |-> scale]

\* the number the first n digit characters of ds write
RECURSIVE ToNat(_, _)
ToNat(ds, n) ==
    IF n = 0 THEN 0 ELSE 10 * ToNat(ds, n - 1) + int(ds[n])

\* str.replace(',', '.')
CommaToDot(s) == [i \in DOMAIN s |-> IF s[i] = "," THEN "." ELSE s[i]]

DotPositions(s) == {i \in DOMAIN s : s[i] = "."}

\* whether float() accepts the dot-decimal text
IsDecimalText(s) ==
    /\ \A i \in DOMAIN s : IsDigitChar(s[i]) \/ s[i] = "."
    /\ Cardinality(DotPositions(s)) <= 1
    /\ \E i \in DOMAIN s : IsDigitChar(s[i])

\* num / 10^scale without trailing fractional zeros
RECURSIVE Normalise(_, _)
Normalise(num, scale) ==
    IF scale > 0 /\ num % 10 = 0
    THEN Normalise(num \div 10, scale - 1)
    ELSE Decimal(num, scale)

\* float() of a dot-decimal text
ToFloat(s) ==
    LET dots == DotPositions(s)
        cut  == IF dots = {} THEN Len(s) + 1 ELSE CHOOSE i \in dots : TRUE
        digits == SubSeq(s, 1, cut - 1) \o SubSeq(s, cut + 1, Len(s))
    IN  Normalise(ToNat(digits, Len(digits)), Len(s) - Min(cut, Len(s)))

\* the comma-decimal balance field as a number
ParseBalance_raw(field) == ToFloat(SelectSeq(field, IsDigitChar))

ParseBalance(field) == ToFloat(CommaToDot(field))

\* a date column value of the form dddd-dd-dd
IsDateText(s) ==
    /\ Len(s) = 10
    /\ \A i \in 1..10 : IF i \in {5, 8} THEN s[i] = "-" ELSE IsDigitChar(s[i])

\* a row the normalizer cannot type: it is left out of the output
IsMalformedRow(row) ==
    \/ ~IsDecimalText(CommaToDot(row.VL_SALDO_FINAL))
    \/ ~IsDateText(row.DATA)

EventosSinistros == "Despesas com Eventos/Sinistros"

\* the rows the processor keeps: test_process_zip_success puts two typed rows
\* in the CSV and gets one record, the expense row
IsExpenseRow_all(row) == TRUE

IsExpenseRow(row) == row.DESCRICAO = EventosSinistros

TypedRow(row) ==
    [row EXCEPT !.VL_SALDO_FINAL = ParseBalance(row.VL_SALDO_FINAL)]

RECURSIVE NormalizeRows(_)
NormalizeRows(rows) ==
    IF rows = <<>> THEN <<>>
    ELSE LET row == Head(rows)
             rest == NormalizeRows(Tail(rows))
         IN  IF ~IsMalformedRow(row) /\ IsExpenseRow(row)
             THEN <<TypedRow(row)>> \o rest
             ELSE rest

\* the entries with a tabular extension, in archive order
CsvEntries(archive) ==
    SelectSeq(archive.entries, LAMBDA en : EndsWith(en.name, DotCsv))

process_zip(archive) ==
    IF ~archive.isZip THEN NoneFrame
    ELSE IF CsvEntries(archive) = <<>> THEN NoneFrame
    ELSE Frame(NormalizeRows(Head(CsvEntries(archive)).rows))

-----------------------------------------------------------------------------
(* Inputs of the processor *)

MaxRows == 2

Chars(n) ==
    CASE n = "100,50" -> <<"1", "0", "0", ",", "5", "0">>
      [] n = "200,00" -> <<"2", "0", "0", ",", "0", "0">>
      [] n = "7,5"    -> <<"7", ",", "5">>
      [] n = "abc"    -> <<"a", "b", "c">>
      [] n = "2025-01-01" ->
            <<"2", "0", "2", "5", "-", "0", "1", "-", "0", "1">>
      [] n = "2025/01" -> <<"2", "0", "2", "5", "/", "0", "1">>
      [] n = "test_data.csv" -> <<"t">> \o DotCsv
      [] n = "readme.txt" -> <<"r", ".", "t", "x", "t">>

\* a line of the CSV under the header of the test fixture
RawRow(date, desc, balance) ==
    [DATA |-> Chars(date), REG_ANS |-> "123456", CD_CONTA_CONTABIL |-> "1111",
     DESCRICAO |-> desc, VL_SALDO_FINAL |-> Chars(balance)]

RowKinds ==
    {RawRow(date, desc, balance) :
        date \in {"2025-01-01", "2025/01"},
        desc \in {EventosSinistros, "Outra Despesa"},
        balance \in {"100,50", "200,00", "7,5", "abc"}}

RowSeqs == UNION {[1..n -> RowKinds] : n \in 0..MaxRows}

Entry1(name, rows) == <<[name |-> Chars(name), rows |-> rows]>>

\* the archive of test_process_zip_success
TestArchive ==
    Zip(Entry1("test_data.csv",
        <<RawRow("2025-01-01", EventosSinistros, "100,50"),
          RawRow("2025-01-01", "Outra Despesa", "200,00")>>))

InitZip ==
    /\ \/ zp_archive \in {NotZip, Zip(<<>>)}
       \/ \E name \in {"test_data.csv", "readme.txt"}, rows \in RowSeqs :
             zp_archive = Zip(Entry1(name, rows))
    /\ zp_result = NoneFrame
    /\ zp_pc = "call"
    /\ IdleValidator
    /\ IdleMain

ProcessZipCall ==
    /\ zp_pc = "call"
    /\ zp_result' = process_zip(zp_archive)
    /\ zp_pc' = "returned"
    /\ UNCHANGED <<zp_archive, vvars, mvars>>

NextZip == ProcessZipCall

SpecZip == InitZip /\ [][NextZip]_vars

-----------------------------------------------------------------------------
(* main: the orchestrator *)

Sep == "/"

\* os.path.join(a, b) for a relative b
path_join(a, b) ==
    IF a = <<>> \/ a[Len(a)] = Sep THEN a \o b ELSE a \o <<Sep>> \o b

\* os.path.basename(p): what follows the last separator
basename_full(p) == p

basename(p) ==
    LET seps == {i \in DOMAIN p : p[i] = Sep}
        last == IF seps = {} THEN 0
                ELSE CHOOSE i \in seps : \A j \in seps : j <= i
    IN  SubSeq(p, last + 1, Len(p))

\* [os.path.join(dir, f) for f in os.listdir(dir) if f.endswith('.zip')]
ZipPaths(dir, names) ==
    LET zips == SelectSeq(names, LAMBDA f : EndsWith(f, DotZip))
    IN  [i \in DOMAIN zips |-> path_join(dir, zips[i])]

\* the file at a path; a path that names no file opens as no archive
ReadFile(path) == IF path \in DOMAIN fs THEN fs[path] ELSE NotZip

\* df is not None and not df.empty
KeepsFrame_notNone(df) == ~df.isNone

KeepsFrame(df) == ~df.isNone /\ df.rows /= <<>>

\* df['SOURCE_FILE'] = value
SetSourceFile(df, value) ==
    Frame([i \in DOMAIN df.rows |->
        [c \in DOMAIN df.rows[i] \cup {"SOURCE_FILE"} |->
            IF c = "SOURCE_FILE" THEN value ELSE df.rows[i][c]]])

\* all_data.append(df)
AppendFrame_front(frames, df) == <<df>> \o frames

AppendFrame(frames, df) == Append(frames, df)

\* the for loop moves to the next file whatever process_zip returned
AfterFile_break(df) ==
    IF df.isNone THEN Len(downloaded_files) + 1 ELSE idx + 1

AfterFile(df) == idx + 1

\* pd.concat(all_data, ignore_index=True)
RECURSIVE concat(_)
concat(frames) ==
    IF frames = <<>> THEN <<>>
    ELSE Head(frames).rows \o concat(Tail(frames))

SampleColumns == {"DATA", "DESCRICAO", "VL_SALDO_FINAL", "SOURCE_FILE"}

HeadRows == 5

\* final_df[[...]].head()
SampleOf(rows) ==
    [i \in 1..Min(HeadRows, Len(rows)) |-> [c \in SampleColumns |-> rows[i][c]]]

Printed(kind, arg) == [kind |-> kind, arg |-> arg]

-----------------------------------------------------------------------------
(* The download directory when main starts *)

MaxFiles == 3

Name(n) ==
    CASE n = "a.zip" -> <<"a">> \o DotZip
      [] n = "b.zip" -> <<"b">> \o DotZip
      [] n = "c.zip" -> <<"c">> \o DotZip
      [] n = "d.txt" -> <<"d", ".", "t", "x", "t">>

FileNames == {Name("a.zip"), Name("b.zip"), Name("c.zip"), Name("d.txt")}

DownloadDirs == {<<"d">>, <<"d", Sep, "q", Sep>>}

\* a CSV with a header and no data row
HeaderOnlyArchive == Zip(Entry1("test_data.csv", <<>>))

\* two expense rows around a row whose balance is no number
MixedArchive ==
    Zip(Entry1("test_data.csv",
        <<RawRow("2025-01-01", EventosSinistros, "7,5"),
          RawRow("2025-01-01", EventosSinistros, "abc"),
          RawRow("2025-01-01", EventosSinistros, "100,50")>>))

ArchiveCatalogue == {NotZip, HeaderOnlyArchive, TestArchive, MixedArchive}

IsInjective(f) == \A i \in DOMAIN f, j \in DOMAIN f : f[i] = f[j] => i = j

Listings ==
    {l \in UNION {[1..n -> FileNames] : n \in 0..MaxFiles} : IsInjective(l)}

NamesOf(l) == {l[i] : i \in DOMAIN l}

\* where the file named f of directory dir lies
PathOf(dir, f) ==
    IF dir[Len(dir)] = Sep THEN dir \o f ELSE dir \o <<Sep>> \o f

Init ==
    /\ download_dir \in DownloadDirs
    /\ listing \in Listings
    /\ \E content \in [NamesOf(listing) -> ArchiveCatalogue] :
          /\ \A f \in NamesOf(listing) :
                ~EndsWith(f, DotZip) => content[f] = NotZip
          /\ fs = [p \in {PathOf(download_dir, f) : f \in NamesOf(listing)} |->
                     content[CHOOSE f \in NamesOf(listing) :
                                PathOf(download_dir, f) = p]]
    /\ downloaded_files = <<>>
    /\ idx = 0
    /\ all_data = <<>>
    /\ origin = <<>>
    /\ final_df = NoneFrame
    /\ printed = <<>>
    /\ pc = "start"
    /\ IdleValidator
    /\ IdleZip

\* main.py lines 7-25: download, list the .zip files, start with no data
ListFiles ==
    /\ pc = "start"
    /\ downloaded_files' = ZipPaths(download_dir, listing)
    /\ all_data' = <<>>
    /\ idx' = 1
    /\ printed' = printed \o
          <<Printed("starting", <<>>),
            Printed("processing_files", Len(ZipPaths(download_dir, listing)))>>
    /\ pc' = "loop"
    /\ UNCHANGED <<download_dir, listing, fs, origin, final_df, vvars, zvars>>

\* main.py lines 27-36: one turn of the for loop
ProcessFile ==
    /\ pc = "loop"
    /\ idx <= Len(downloaded_files)
    /\ LET zip_file == downloaded_files[idx]
           df == process_zip(ReadFile(zip_file))
       IN  /\ printed' = Append(printed, Printed("processing", zip_file))
           /\ IF KeepsFrame(df)
              THEN /\ all_data' =
                        AppendFrame(all_data, SetSourceFile(df, basename(zip_file)))
                   /\ origin' = origin \o [i \in DOMAIN df.rows |-> idx]
              ELSE UNCHANGED <<all_data, origin>>
           /\ idx' = AfterFile(df)
    /\ UNCHANGED <<download_dir, listing, fs, downloaded_files, final_df, pc,
                   vvars, zvars>>

\* main.py lines 38-46: merge and report, or report that nothing was processed
Aggregate ==
    /\ pc = "loop"
    /\ idx > Len(downloaded_files)
    /\ IF all_data /= <<>>
       THEN LET merged == concat(all_data)
            IN  /\ final_df' = Frame(merged)
                /\ IF \A i \in DOMAIN merged : SampleColumns \subseteq DOMAIN merged[i]
                   THEN /\ printed' = printed \o
                              <<Printed("final_result", <<>>),
                                Printed("total_rows", Len(merged)),
                                Printed("sample", SampleOf(merged))>>
                        /\ pc' = "done"
                   ELSE /\ printed' = printed \o
                              <<Printed("final_result", <<>>),
                                Printed("total_rows", Len(merged))>>
                        /\ pc' = "crashed"
       ELSE /\ printed' = Append(printed, Printed("no_data", <<>>))
            /\ pc' = "done"
            /\ UNCHANGED final_df
    /\ UNCHANGED <<download_dir, listing, fs, downloaded_files, idx, all_data,
                   origin, vvars, zvars>>

Next == ListFiles \/ ProcessFile \/ Aggregate

Spec == Init /\ [][Next]_vars

-----------------------------------------------------------------------------
(* The check-digit rule as the specification words it, on numbers *)

DigitValue(c) ==
    CASE c = "0" -> 0 [] c = "1" -> 1 [] c = "2" -> 2 [] c = "3" -> 3
      [] c = "4" -> 4 [] c = "5" -> 5 [] c = "6" -> 6 [] c = "7" -> 7
      [] c = "8" -> 8 [] c = "9" -> 9

RECURSIVE DigitsOf(_)
DigitsOf(s) ==
    IF s = <<>> THEN <<>>
    ELSE IF Head(s) \in {"0", "1", "2", "3", "4", "5", "6", "7", "8", "9"}
         THEN <<DigitValue(Head(s))>> \o DigitsOf(Tail(s))
         ELSE DigitsOf(Tail(s))

RECURSIVE Dot(_, _)
Dot(ns, ws) ==
    IF ns = <<>> \/ ws = <<>> THEN 0
    ELSE Head(ns) * Head(ws) + Dot(Tail(ns), Tail(ws))

CheckDigit(ns, ws) ==
    LET r == Dot(ns, ws) % 11 IN IF r < 2 THEN 0 ELSE 11 - r

FirstCheck(ns) ==
    CheckDigit(SubSeq(ns, 1, 12), <<5, 4, 3, 2, 9, 8, 7, 6, 5, 4, 3, 2>>)

SecondCheck(ns) ==
    CheckDigit(SubSeq(ns, 1, 12) \o <<FirstCheck(ns)>>,
               <<6, 5, 4, 3, 2, 9, 8, 7, 6, 5, 4, 3, 2>>)

ChecksMatch(ns) == ns[13] = FirstCheck(ns) /\ ns[14] = SecondCheck(ns)

AllSame(ns) == \A i \in DOMAIN ns, j \in DOMAIN ns : ns[i] = ns[j]

\* The digits of the argument (none for None)
ArgDigits == IF cnpj_arg.isNone THEN <<>> ELSE DigitsOf(cnpj_arg.chars)

Returned == v_pc = "returned"

Google14 == <<0, 6, 9, 9, 0, 5, 9, 0, 0, 0, 0, 1, 2, 3>>

-----------------------------------------------------------------------------
(* C1: for an input whose digits are 14 and not all identical,            *)
(* validate_cnpj returns true exactly when the 13th digit is the first    *)
(* check digit and the 14th the second check digit (computed over body    *)
(* plus first check digit); 06990590000123 and 06.990.590/0001-23 give    *)
(* true, 06990590000124 gives false.                                      *)
C1_ValidIffCheckDigits ==
    Returned /\ Len(ArgDigits) = 14 /\ ~AllSame(ArgDigits) =>
        /\ result = ChecksMatch(ArgDigits)
        /\ ArgDigits = Google14 => result = TRUE
        /\ ArgDigits = [Google14 EXCEPT ![14] = 4] => result = FALSE

C1_Witness ==
    /\ Returned
    /\ result = TRUE
    /\ ArgDigits = Google14
    /\ Len(cnpj_arg.chars) = 18

C3_CheckDigitMutationRejected ==
    Returned /\ result = TRUE /\ Len(cnpj) = 14 =>
        \A k \in {13, 14}, d \in DigitSet :
            d /= cnpj[k] => validate_cnpj(Str([cnpj EXCEPT ![k] = d])) = FALSE

C3_Witness ==
    /\ Returned
    /\ result = TRUE
    /\ Len(cnpj) = 14
    /\ ArgDigits /= Google14

(* C4: a 13-digit input whose left-padding with a zero has correct check  *)
(* digits is accepted (test_cnpj_stripped_zeros).                         *)
C4_StrippedZeroAccepted ==
    Returned /\ Len(ArgDigits) = 13
             /\ ~AllSame(<<0>> \o ArgDigits)
             /\ ChecksMatch(<<0>> \o ArgDigits) => result = TRUE

(* C10: the second check digit is computed over the input's own first 13  *)
(* digits, and for every 14-digit input the verdict equals that of the    *)
(* rule that uses the computed first check digit.                         *)
C10_OwnThirteenthSameVerdict ==
    Returned /\ Len(ArgDigits) = 14 =>
        /\ digit_2 /= Unset =>
              digit_2 = CheckDigit(SubSeq(ArgDigits, 1, 13),
                                   <<6, 5, 4, 3, 2, 9, 8, 7, 6, 5, 4, 3, 2>>)
        /\ result = (~AllSame(ArgDigits) /\ ChecksMatch(ArgDigits))

\* the two second digits differ, the input's 14th digit is the code's one
C10_Witness ==
    /\ Returned
    /\ Len(ArgDigits) = 14
    /\ digit_2 /= Unset
    /\ digit_2 /= SecondCheck(ArgDigits)
    /\ digit_2 = ArgDigits[14]
    /\ result = FALSE

-----------------------------------------------------------------------------
(* What the normalizer is to emit, read off the source fields *)

\* the dot-decimal numbers of the comma-decimal fields of the inputs
ExpectedBalance(field) ==
    CASE field = <<"1", "0", "0", ",", "5", "0">> -> [num |-> 1005, scale |-> 1]
      [] field = <<"2", "0", "0", ",", "0", "0">> -> [num |-> 200, scale |-> 0]
      [] field = <<"7", ",", "5">>                -> [num |-> 75, scale |-> 1]

WellFormedSource(row) ==
    /\ row.VL_SALDO_FINAL \in {<<"1", "0", "0", ",", "5", "0">>,
                               <<"2", "0", "0", ",", "0", "0">>,
                               <<"7", ",", "5">>}
    /\ row.DATA = <<"2", "0", "2", "5", "-", "0", "1", "-", "0", "1">>

ExpenseSource(row) ==
    WellFormedSource(row) /\ row.DESCRICAO = "Despesas com Eventos/Sinistros"

ExpectedRecords(rows, Keep(_)) ==
    LET kept == SelectSeq(rows, Keep)
    IN  [i \in DOMAIN kept |->
            [kept[i] EXCEPT
                !.VL_SALDO_FINAL = ExpectedBalance(kept[i].VL_SALDO_FINAL)]]

\* process_zip has returned for an archive holding a single CSV entry
SingleCsvProcessed ==
    /\ zp_pc = "returned"
    /\ zp_archive.isZip
    /\ Len(zp_archive.entries) = 1
    /\ zp_archive.entries[1].name = <<"t", ".", "c", "s", "v">>

SourceRows == zp_archive.entries[1].rows

-----------------------------------------------------------------------------
(* The run, read off the directory and the files *)

\* the archives in the order the directory lists them
ZipListing ==
    SelectSeq(listing, LAMBDA f :
        Len(f) >= 4 /\ SubSeq(f, Len(f) - 3, Len(f)) = <<".", "z", "i", "p">>)

ArchiveAt(i) == fs[PathOf(download_dir, ZipListing[i])]

\* what processing archive i returns
Yield(i) == process_zip(ArchiveAt(i))

Started == pc \in {"loop", "done", "crashed"}

\* the turns of the loop taken so far, by the path each printed
Visited == SelectSeq(printed, LAMBDA e : e.kind = "processing")

WasProcessed(i) ==
    \E k \in DOMAIN Visited : Visited[k].arg = PathOf(download_dir, ZipListing[i])

Origins == {origin[k] : k \in DOMAIN origin}

Untagged(rows) ==
    [k \in DOMAIN rows |->
        [c \in DOMAIN rows[k] \ {"SOURCE_FILE"} |-> rows[k][c]]]

RECURSIVE MergedUpTo(_)
MergedUpTo(n) ==
    IF n = 0 THEN <<>>
    ELSE MergedUpTo(n - 1) \o (IF Yield(n).isNone THEN <<>> ELSE Yield(n).rows)

InvalidArchives == {i \in DOMAIN ZipListing : ~ArchiveAt(i).isZip}

\* the skipped-file count the run reports
ReportedSkipped == Len(SelectSeq(printed, LAMBDA e : e.kind = "skipped"))

SkipAndContinue ==
    Started =>
        \A i \in InvalidArchives :
            /\ pc /= "crashed"
            /\ i \notin Origins
            /\ pc = "done" =>
                  \A j \in DOMAIN ZipListing : j > i => WasProcessed(j)

TaggedFromOrigin(rows) ==
    /\ Len(rows) = Len(origin)
    /\ \A k \in DOMAIN rows :
          /\ "SOURCE_FILE" \in DOMAIN rows[k]
          /\ origin[k] \in DOMAIN ZipListing
          /\ rows[k].SOURCE_FILE = ZipListing[origin[k]]
          /\ \E r \in DOMAIN Yield(origin[k]).rows :
                Yield(origin[k]).rows[r] = Untagged(rows)[k]

(* C6: at every point of a run and in the merged output, every            *)
(* accumulated record carries a source tag, and the tag is the base name  *)
(* of the archive file the record was extracted from.                     *)
C6_SourceTagIsBaseName ==
    /\ TaggedFromOrigin(concat(all_data))
    /\ ~final_df.isNone => TaggedFromOrigin(final_df.rows)

C6_Witness ==
    /\ pc = "done"
    /\ ~final_df.isNone
    /\ Len(download_dir) > 1
    /\ \E k \in DOMAIN final_df.rows :
          final_df.rows[k].SOURCE_FILE /= final_df.rows[1].SOURCE_FILE

SomeArchiveYielded ==
    \E i \in DOMAIN ZipListing : ~Yield(i).isNone /\ Yield(i).rows /= <<>>

PrintedKinds == {printed[k].kind : k \in DOMAIN printed}

\* the steps a run has left: two around the loop, one per file not yet visited
StepsLeft ==
    CASE pc = "start" -> Len(ZipListing) + 2
      [] pc = "loop"  -> Len(downloaded_files) - idx + 2
      [] OTHER        -> 0

RunEndsReporting ==
    /\ pc /= "crashed"
    /\ Started => /\ Len(downloaded_files) = Len(ZipListing)
                  /\ idx \in 1..(Len(downloaded_files) + 1)
    /\ pc = "done" =>
          IF SomeArchiveYielded
          THEN /\ ~final_df.isNone
               /\ final_df.rows /= <<>>
               /\ printed[Len(printed)].kind = "sample"
               /\ {"final_result", "total_rows"} \subseteq PrintedKinds
               /\ "no_data" \notin PrintedKinds
          ELSE /\ final_df.isNone
               /\ printed[Len(printed)].kind = "no_data"
               /\ "final_result" \notin PrintedKinds

C9_MergedIsConcatenation ==
    Started =>
        /\ Visited = [k \in 1..(idx - 1) |->
                        Printed("processing",
                                PathOf(download_dir, ZipListing[k]))]
        /\ Untagged(concat(all_data)) = MergedUpTo(idx - 1)
        /\ pc = "done" =>
              /\ idx = Len(ZipListing) + 1
              /\ IF final_df.isNone
                 THEN MergedUpTo(Len(ZipListing)) = <<>>
                 ELSE Untagged(final_df.rows) = MergedUpTo(Len(ZipListing))

C9_Witness ==
    /\ pc = "done"
    /\ ~final_df.isNone
    /\ Len(ZipListing) = 3
    /\ Origins = {1, 3}
    /\ Len(final_df.rows) = 3

=============================================================================
